---- MODULE Spec2Model ----
(***************************************************************************)
(* SponCom: a rotating pool of sponsors stored in SQLite.  The model       *)
(* covers the store (tables sponsor, gratitude, precommit), the            *)
(* transaction discipline of dbxs/sqlite3 (private writes published at     *)
(* commit, one writer at a time, plain SELECTs holding no lock once they   *)
(* have run), and the commands add / thank / prepare together with the     *)
(* crediting loop, which exists in two revisions: contributors (cli.py)    *)
(* and patrons (models.py).                                                *)
(***************************************************************************)
EXTENDS Integers, Sequences, FiniteSets, TLC

\* ------------------------------------------------------------------ bounds
MaxSponsors == 2      \* sponsor rows that add may create
MaxLevel == 2         \* largest level passed to add
MaxNeg == 1           \* magnitude of the most negative integer argument
MaxHowMany == 1       \* largest count passed to thank / patrons
MaxEvents == 3        \* gratitude rows the log may hold
MaxNames == 4         \* longest list of names given to the formatting

Procs == {1, 2}
SponsorIds == 1..MaxSponsors
Names == {"A", "B"}
Levels == (0 - MaxNeg)..MaxLevel
HowManys == (0 - MaxNeg)..MaxHowMany
None == "None"

VARIABLES
    db,       \* committed contents of ~/.sponcom-v1.sqlite
    wdb,      \* the contents as seen by the open write transaction
    writer,   \* process holding SQLite's write lock, 0 when free
    now,      \* the reading time() gives; it moves on between commits
    inv       \* per process: the running creditSponsors invocation

vars == <<db, wdb, writer, now, inv>>

\* ------------------------------------------------------------- describers
StringDescriber(string) == [kind |-> "string", string |-> string]

CommitDescriber(userMessage, preMessagePath, workingDirectory, commitSource, commitObject) ==
    [kind |-> "commit", userMessage |-> userMessage,
     preMessagePath |-> preMessagePath, workingDirectory |-> workingDirectory,
     commitSource |-> commitSource, commitObject |-> commitObject]

descriptionString(d) ==
    IF d.kind = "string" THEN d.string ELSE "commit from " \o d.workingDirectory

\* as describeGratitude, had addCommit been called with the describer's fields
\* in the order the dataclass declares them (preMessagePath before
\* workingDirectory)
describeGratitudeSwapped(d, gratitudeID) ==
    IF d.kind = "string" THEN {}
    ELSE {[gratitude_id |-> gratitudeID, commit_message |-> d.userMessage,
           working_directory |-> d.preMessagePath,
           pre_message_path |-> d.workingDirectory,
           commit_source |-> d.commitSource, commit_object |-> d.commitObject]}

\* rows addCommit inserts for one gratitude id (none for a StringDescriber)
describeGratitude(d, gratitudeID) ==
    IF d.kind = "string" THEN {}
    ELSE {[gratitude_id |-> gratitudeID, commit_message |-> d.userMessage,
           working_directory |-> d.workingDirectory,
           pre_message_path |-> d.preMessagePath,
           commit_source |-> d.commitSource, commit_object |-> d.commitObject]}

HookHowMany == 3
Descriptions == {"thanks"}
HookDescriber == CommitDescriber("msg", "COMMIT_EDITMSG", "/repo", None, None)
Describers == {StringDescriber(s) : s \in Descriptions} \cup {HookDescriber}

\* ------------------------------------------------------------------ store
RECURSIVE Perms(_)
Perms(S) ==
    IF S = {} THEN {<<>>}
    ELSE UNION {{<<x>> \o t : t \in Perms(S \ {x})} : x \in S}

\* the tables of the schema script
Tables == {"sponsor", "gratitude", "precommit"}

\* a table as CREATE TABLE leaves it: sponsor rows are keyed by the primary
\* key id, the other tables are sets of rows
NoRows(t) == IF t = "sponsor" THEN <<>> ELSE {}

\* the database file as sqlite3.connect creates it
NoTables == [t \in {} |-> {}]

\* as CreateTableIfNotExists, had the script been DROP TABLE IF EXISTS
\* followed by CREATE TABLE: the table is made anew on every connection
CreateTableFresh(store, t) ==
    [u \in (DOMAIN store) \cup {t} |-> IF u = t THEN NoRows(t) ELSE store[u]]

\* CREATE TABLE IF NOT EXISTS t (...): nothing happens when t exists
CreateTableIfNotExists(store, t) ==
    IF t \in DOMAIN store THEN store
    ELSE [u \in (DOMAIN store) \cup {t} |-> IF u = t THEN NoRows(t) ELSE store[u]]

\* connection.executescript(schema): the three statements in script order
schemaed(store) ==
    CreateTableIfNotExists(
        CreateTableIfNotExists(
            CreateTableIfNotExists(store, "sponsor"), "gratitude"), "precommit")

\* the store after the first connection
EmptyStore == schemaed(NoTables)

\* as saveSponsor, had the statement no ON CONFLICT ... DO UPDATE clause taking
\* effect: an existing row keeps its values
saveSponsorInsertOnly(sponsor, id, name, level, current) ==
    [i \in (DOMAIN sponsor) \cup {id} |->
        IF i \in DOMAIN sponsor THEN sponsor[i]
        ELSE [name |-> name, level |-> level, current |-> current]]

\* as saveSponsor, had the conflict clause been an UPDATE of the table with no
\* WHERE: every row takes the values being saved
saveSponsorEveryRow(sponsor, id, name, level, current) ==
    [i \in (DOMAIN sponsor) \cup {id} |->
        [name |-> name, level |-> level, current |-> current]]

\* INSERT ... ON CONFLICT(id) DO UPDATE SET (name, level, current) = ...
saveSponsor(sponsor, id, name, level, current) ==
    [i \in (DOMAIN sponsor) \cup {id} |->
        IF i = id THEN [name |-> name, level |-> level, current |-> current]
        ELSE sponsor[i]]

\* as addGratitude, had the statement been INSERT OR REPLACE on a table keyed
\* by sponsor_id: the sponsor's earlier rows make way for the new one
addGratitudeReplace(gratitude, id, sponsor_id, timestamp, description) ==
    {g \in gratitude : g.sponsor_id # sponsor_id}
        \cup {[id |-> id, sponsor_id |-> sponsor_id,
               timestamp |-> timestamp, description |-> description]}

\* INSERT INTO gratitude(id, sponsor_id, timestamp, description) VALUES (...)
addGratitude(gratitude, id, sponsor_id, timestamp, description) ==
    gratitude \cup {[id |-> id, sponsor_id |-> sponsor_id,
                     timestamp |-> timestamp, description |-> description]}

CommitRecord(gratitudeID, commitMessage, workingDirectory, preMessagePath, commitSource, commitObject) ==
    [gratitudeID |-> gratitudeID, commitMessage |-> commitMessage,
     workingDirectory |-> workingDirectory, preMessagePath |-> preMessagePath,
     commitSource |-> commitSource, commitObject |-> commitObject]

\* SELECT ... FROM precommit WHERE gratitude_id = {gratitude_id}, loaded with
\* maybe(CommitRecord): None for no row, the record for one row, an error for
\* more than one
commitForGratitude(precommit, gratitude_id) ==
    LET rows == {c \in precommit : c.gratitude_id = gratitude_id}
    IN IF rows = {} THEN None
       ELSE IF Cardinality(rows) > 1 THEN "TooManyResults"
       ELSE LET c == CHOOSE r \in rows : TRUE
            IN CommitRecord(c.gratitude_id, c.commit_message, c.working_directory,
                            c.pre_message_path, c.commit_source, c.commit_object)

\* SELECT name, level, current FROM sponsor, loaded with many(Sponsor): the id
\* column is not selected, so every object loaded gets a new uuid4 for its id
sponsors(sponsor) ==
    LET n == Cardinality(DOMAIN sponsor)
        rows == CHOOSE f \in [1..n -> DOMAIN sponsor] : \A i, j \in 1..n : i < j => f[i] < f[j]
    IN [k \in 1..n |-> [id |-> n + k, name |-> sponsor[rows[k]].name,
                         level |-> sponsor[rows[k]].level,
                         current |-> sponsor[rows[k]].current]]

\* SELECT name, level, current FROM sponsor WHERE id = {id}, loaded with
\* one(Sponsor): an error unless exactly one row has the id
sponsorByID(sponsor, id) ==
    IF id \notin DOMAIN sponsor THEN [error |-> "NotEnoughResults"]
    ELSE [error |-> None, id |-> Cardinality(DOMAIN sponsor) + 1,
          name |-> sponsor[id].name, level |-> sponsor[id].level,
          current |-> sponsor[id].current]

\* SELECT id, sponsor_id, timestamp, description FROM gratitude
\* ORDER BY timestamp ASC : every order the rows can come in
listGratitude(gratitude) ==
    {s \in Perms(gratitude) :
        \A i, j \in 1..Len(s) : i < j => s[i].timestamp <= s[j].timestamp}

\* UPDATE sponsor SET current = level
fullReset(sponsor) ==
    [i \in DOMAIN sponsor |-> [sponsor[i] EXCEPT !.current = sponsor[i].level]]

\* as Qualifying, had the query said WHERE current >= 0
QualifyingIncludesZero(sponsor) == {i \in DOMAIN sponsor : sponsor[i].current >= 0}

\* WHERE current > 0
Qualifying(sponsor) == {i \in DOMAIN sponsor : sponsor[i].current > 0}

\* the pool has sponsors and none of them has credit left
Exhausted(sponsor) ==
    /\ DOMAIN sponsor # {}
    /\ \A i \in DOMAIN sponsor : sponsor[i].current = 0

Min(a, b) == IF a < b THEN a ELSE b

\* number of rows LIMIT lets through: a negative LIMIT is no limit in SQLite
LimitCount(q, limit) == IF limit < 0 THEN q ELSE Min(limit, q)

Prefix(s, n) == [i \in 1..n |-> s[i]]

\* SELECT name, level, current, id FROM sponsor WHERE current > 0
\* ORDER BY random() LIMIT limit : every possible answer, as Sponsor objects
draw(sponsor, limit) ==
    LET q == Qualifying(sponsor)
        n == LimitCount(Cardinality(q), limit)
    IN {[k \in 1..n |-> [id |-> s[k], name |-> sponsor[s[k]].name,
                         level |-> sponsor[s[k]].level,
                         current |-> sponsor[s[k]].current]]
        : s \in {Prefix(t, n) : t \in Perms(q)}}

\* --------------------------------------------------------------- formatting
RECURSIVE join(_, _)
join(sep, names) ==
    IF names = <<>> THEN ""
    ELSE IF Len(names) = 1 THEN names[1]
    ELSE names[1] \o sep \o join(sep, Tail(names))

\* as FormatNames, had the separator been chosen by len(names) > 1
FormatNamesCommaForTwo(names) ==
    LET n == Len(names)
        marked == IF n > 1 THEN [names EXCEPT ![n] = "and " \o names[n]] ELSE names
    IN join(IF n > 1 THEN ", " ELSE " ", marked)

\* names[-1] = "and " + names[-1]; (", " if len(names) > 2 else " ").join(names)
FormatNames(names) ==
    LET n == Len(names)
        marked == IF n > 1 THEN [names EXCEPT ![n] = "and " \o names[n]] ELSE names
    IN join(IF n > 2 THEN ", " ELSE " ", marked)

\* -------------------------------------------------------------- invocations
Idle ==
    [pc |-> "idle", variant |-> "none", howMany |-> 0,
     describer |-> StringDescriber("thanks"), repeat |-> 0, timestamp |-> 0,
     drawn |-> <<>>, idx |-> 0, names |-> <<>>, added |-> {},
     outcome |-> "none", result |-> "", resets |-> 0, exhausted |-> FALSE,
     shown |-> <<>>]

Init ==
    /\ db = EmptyStore
    /\ wdb = EmptyStore
    /\ writer = 0
    /\ now = 0
    /\ inv = [p \in Procs |-> Idle]

\* ------------------------------------------------------------------ actions
\* str(uuid4()): an id no gratitude row and no running invocation holds
uuid4 ==
    LET used == {g.id : g \in wdb.gratitude} \cup UNION {inv[q].added : q \in Procs}
    IN CHOOSE id \in 1..(Cardinality(used) + 1) : id \notin used

Callable(p) == inv[p].pc = "idle"

Enter(p, variant, howMany, describer) ==
    /\ Callable(p)
    /\ inv' = [inv EXCEPT ![p] =
                 [Idle EXCEPT !.pc = "draw", !.variant = variant,
                              !.howMany = howMany, !.describer = describer,
                              !.exhausted = Exhausted(db.sponsor)]]
    /\ UNCHANGED <<db, wdb, writer, now>>

\* sponcom thank DESCRIPTION [NUMBER]: number is any integer click parses
thank(p, description, number) ==
    Enter(p, "contributors", number, StringDescriber(description))

\* the prepare-commit-msg hook: contributors(3, CommitDescriber(...))
prepare(p) == Enter(p, "contributors", HookHowMany, HookDescriber)

\* models.patrons(driver, howMany, describer), called as a library function
patrons(p, howMany, describer) == Enter(p, "patrons", howMany, describer)

\* sponcom add NAME LEVEL: Sponsor(acc, name, level).save() in a transaction
\* of its own; __post_init__ sets current to level, uuid4 gives a fresh id
add(name, level) ==
    /\ writer = 0
    /\ Cardinality(DOMAIN db.sponsor) < MaxSponsors
    /\ LET id == Cardinality(DOMAIN db.sponsor) + 1
           stored == [schemaed(db) EXCEPT
                        !.sponsor = saveSponsor(@, id, name, level, level)]
       IN /\ db' = stored
          /\ wdb' = stored
    /\ UNCHANGED <<writer, now, inv>>

\* sponcom list: echo current, name, level and id of every sponsor loaded
list(p) ==
    /\ Callable(p)
    /\ db' = schemaed(db)
    /\ wdb' = IF writer = 0 THEN schemaed(db) ELSE wdb
    /\ inv' = [inv EXCEPT ![p] =
                 [Idle EXCEPT !.pc = "shown", !.variant = "list",
                              !.shown = sponsors(schemaed(db).sponsor)]]
    /\ UNCHANGED <<writer, now>>

\* sponcom history: for every gratitude row in time order, echo the time, the
\* name sponsorByID loads and the description, and the working directory of
\* the commit when commitForGratitude finds one
history(p) ==
    /\ Callable(p)
    /\ db' = schemaed(db)
    /\ wdb' = IF writer = 0 THEN schemaed(db) ELSE wdb
    /\ \E rows \in listGratitude(schemaed(db).gratitude) :
         LET store == schemaed(db)
             line(g) ==
                 [isotime |-> g.timestamp,
                  name |-> sponsorByID(store.sponsor, g.sponsor_id).name,
                  description |-> g.description,
                  commit |-> IF \E c \in store.precommit : c.gratitude_id = g.id
                             THEN commitForGratitude(store.precommit, g.id).workingDirectory
                             ELSE None]
         IN inv' = [inv EXCEPT ![p] =
                      IF \A g \in store.gratitude : g.sponsor_id \in DOMAIN store.sponsor
                      THEN [Idle EXCEPT !.pc = "shown", !.variant = "history",
                                        !.shown = [k \in 1..Len(rows) |-> line(rows[k])]]
                      ELSE [Idle EXCEPT !.pc = "shown", !.variant = "history",
                                        !.outcome = "error"]]
    /\ UNCHANGED <<writer, now>>

\* async with transaction(driver): the driver connects through schemaed, which
\* runs the schema script on the committed store; then timestamp = time() and
\* acc.draw(howMany)
Draw(p) ==
    /\ inv[p].pc = "draw"
    /\ db' = schemaed(db)
    /\ wdb' = IF writer = 0 THEN schemaed(db) ELSE wdb
    /\ \E drawn \in draw(schemaed(db).sponsor, inv[p].howMany) :
         inv' = [inv EXCEPT ![p].pc = "loop", ![p].timestamp = now,
                            ![p].drawn = drawn, ![p].idx = 0,
                            ![p].names = <<>>, ![p].added = {}]
    /\ UNCHANGED <<writer, now>>

\* as Thank, had the connection been in autocommit mode: every statement is
\* committed as it runs
ThankAutocommit(p) ==
    /\ inv[p].pc = "loop"
    /\ inv[p].idx < Len(inv[p].drawn)
    /\ writer \in {0, p}
    /\ Cardinality(wdb.gratitude) < MaxEvents
    /\ LET sponsor == inv[p].drawn[inv[p].idx + 1]
           gratitudeID == uuid4
           d == inv[p].describer
           stored == [sponsor |-> saveSponsor(wdb.sponsor, sponsor.id, sponsor.name,
                                              sponsor.level, sponsor.current - 1),
                      gratitude |-> addGratitude(wdb.gratitude, gratitudeID, sponsor.id,
                                                 inv[p].timestamp, descriptionString(d)),
                      precommit |-> wdb.precommit \cup describeGratitude(d, gratitudeID)]
       IN /\ wdb' = stored
          /\ db' = stored
          /\ inv' = [inv EXCEPT ![p].idx = @ + 1,
                                ![p].names = Append(@, sponsor.name),
                                ![p].added = @ \cup {gratitudeID}]
    /\ writer' = p
    /\ UNCHANGED now

\* one pass of the loop body: sponsor.thank(timestamp, describer), then
\* names.append(sponsor.name).  The first write takes the write lock.
Thank(p) ==
    /\ inv[p].pc = "loop"
    /\ inv[p].idx < Len(inv[p].drawn)
    /\ writer \in {0, p}
    /\ Cardinality(wdb.gratitude) < MaxEvents
    /\ LET sponsor == inv[p].drawn[inv[p].idx + 1]
           gratitudeID == uuid4
           d == inv[p].describer
       IN /\ wdb' = [sponsor |-> saveSponsor(wdb.sponsor, sponsor.id, sponsor.name,
                                             sponsor.level, sponsor.current - 1),
                     gratitude |-> addGratitude(wdb.gratitude, gratitudeID, sponsor.id,
                                                inv[p].timestamp, descriptionString(d)),
                     precommit |-> wdb.precommit \cup describeGratitude(d, gratitudeID)]
          /\ inv' = [inv EXCEPT ![p].idx = @ + 1,
                                ![p].names = Append(@, sponsor.name),
                                ![p].added = @ \cup {gratitudeID}]
    /\ writer' = p
    /\ UNCHANGED <<db, now>>

\* if names: return the formatted list; leaving the with block commits
Return(p) ==
    /\ inv[p].pc = "loop"
    /\ inv[p].idx = Len(inv[p].drawn)
    /\ inv[p].names # <<>>
    /\ writer = p
    /\ db' = wdb
    /\ writer' = 0
    /\ inv' = [inv EXCEPT ![p].pc = "done", ![p].outcome = "names",
                          ![p].result = FormatNames(inv[p].names)]
    /\ now' = now + 1
    /\ UNCHANGED wdb

\* as Reset, had the retry run inside the transaction that issued the reset:
\* the reset stays private to the writer until the retry commits
ResetUncommitted(p) ==
    /\ inv[p].pc = "loop"
    /\ inv[p].idx = Len(inv[p].drawn)
    /\ inv[p].names = <<>>
    /\ writer = 0
    /\ wdb' = [wdb EXCEPT !.sponsor = fullReset(@)]
    /\ writer' = p
    /\ inv' = [inv EXCEPT
                 ![p].resets = @ + 1,
                 ![p].repeat = @ + 1,
                 ![p].pc = IF inv[p].repeat = 0 THEN "draw" ELSE "done",
                 ![p].outcome = IF inv[p].repeat = 0 THEN "none"
                                ELSE IF inv[p].variant = "patrons" THEN "sentinel"
                                ELSE "assert"]
    /\ UNCHANGED <<db, now>>

\* as Reset, had patrons kept the ending of contributors: assert False
ResetAssert(p) ==
    /\ inv[p].pc = "loop"
    /\ inv[p].idx = Len(inv[p].drawn)
    /\ inv[p].names = <<>>
    /\ writer = 0
    /\ LET stored == [wdb EXCEPT !.sponsor = fullReset(@)]
       IN /\ db' = stored
          /\ wdb' = stored
    /\ inv' = [inv EXCEPT
                 ![p].resets = @ + 1,
                 ![p].repeat = @ + 1,
                 ![p].pc = IF inv[p].repeat = 0 THEN "draw" ELSE "done",
                 ![p].outcome = IF inv[p].repeat = 0 THEN "none" ELSE "assert",
                 ![p].result = IF inv[p].repeat = 0 THEN ""
                               ELSE "this should be unreachable"]
    /\ UNCHANGED <<writer, now>>

\* as Reset, had the loop been "while True" instead of "for repeat in range(2)":
\* the pass counter is not consulted and every empty draw leads to another pass
ResetForever(p) ==
    /\ inv[p].pc = "loop"
    /\ inv[p].idx = Len(inv[p].drawn)
    /\ inv[p].names = <<>>
    /\ writer = 0
    /\ LET stored == [wdb EXCEPT !.sponsor = fullReset(@)]
       IN /\ db' = stored
          /\ wdb' = stored
    /\ inv' = [inv EXCEPT ![p].resets = Min(@ + 1, 2), ![p].pc = "draw"]
    /\ UNCHANGED <<writer, now>>

\* else: acc.fullReset(); echo("* resetting"); the with block commits and the
\* for loop goes on, or runs out after the second pass
Reset(p) ==
    /\ inv[p].pc = "loop"
    /\ inv[p].idx = Len(inv[p].drawn)
    /\ inv[p].names = <<>>
    /\ writer = 0
    /\ LET stored == [wdb EXCEPT !.sponsor = fullReset(@)]
       IN /\ db' = stored
          /\ wdb' = stored
    /\ inv' = [inv EXCEPT
                 ![p].resets = @ + 1,
                 ![p].repeat = @ + 1,
                 ![p].pc = IF inv[p].repeat = 0 THEN "draw" ELSE "done",
                 ![p].outcome = IF inv[p].repeat = 0 THEN "none"
                                ELSE IF inv[p].variant = "patrons" THEN "sentinel"
                                ELSE "assert",
                 ![p].result = IF inv[p].repeat = 0 THEN ""
                               ELSE IF inv[p].variant = "patrons" THEN "just me"
                               ELSE "this should be unreachable"]
    /\ UNCHANGED <<writer, now>>

\* a statement or the describer raises (storage error, database is locked):
\* the with block rolls the transaction back and the error reaches the caller
Fail(p) ==
    /\ inv[p].pc \in {"draw", "loop"}
    /\ wdb' = db
    /\ writer' = IF writer = p THEN 0 ELSE writer
    /\ writer \in {0, p}
    /\ inv' = [inv EXCEPT ![p].pc = "done", ![p].outcome = "error",
                          ![p].drawn = <<>>, ![p].idx = 0, ![p].names = <<>>]
    /\ UNCHANGED <<db, now>>

\* react() stops the reactor once the command's coroutine has finished or
\* raised, and the process ends
Exit(p) ==
    /\ inv[p].pc \in {"done", "shown"}
    /\ inv' = [inv EXCEPT ![p] = Idle]
    /\ UNCHANGED <<db, wdb, writer, now>>

\* the steps of an invocation once it has been entered
Run(p) ==
    \/ Draw(p)
    \/ Thank(p)
    \/ Return(p)
    \/ Reset(p)
    \/ Fail(p)

Quiet == \A p \in Procs : Callable(p)

\* invocations run one at a time
Next ==
    \/ \E description \in Descriptions, number \in HowManys : thank(1, description, number)
    \/ prepare(1)
    \/ \E howMany \in HowManys, describer \in Describers : patrons(1, howMany, describer)
    \/ list(1)
    \/ history(1)
    \/ Run(1)
    \/ Exit(1)
    \/ Quiet /\ \E name \in Names, level \in Levels : add(name, level)

Spec == Init /\ [][Next]_vars

\* sponsors are added, then two sponcom thank commands run and may overlap
NextConcurrent ==
    \/ \E p \in Procs, description \in Descriptions, number \in HowManys :
          thank(p, description, number)
    \/ \E p \in Procs : Run(p)
    \/ Quiet /\ \E name \in Names, level \in Levels : add(name, level)

SpecConcurrent == Init /\ [][NextConcurrent]_vars

\* the formatting on its own: the loop has appended the names of the drawn
\* sponsors, in draw order, and "if names:" is about to format them
SponsorNames == {"A", "B", "C"}

NameLists == UNION {[1..k -> SponsorNames] : k \in 1..MaxNames}

InitFormat ==
    /\ db = EmptyStore
    /\ wdb = EmptyStore
    /\ writer = 0
    /\ now = 0
    /\ \E names \in NameLists :
         inv = [p \in Procs |->
                  IF p = 1 THEN [Idle EXCEPT !.pc = "names", !.names = names]
                  ELSE Idle]

\* if len(names) > 1: names[-1] = "and " + names[-1]
\* return (", " if len(names) > 2 else " ").join(names)
Format(p) ==
    /\ inv[p].pc = "names"
    /\ inv' = [inv EXCEPT ![p].pc = "done", ![p].outcome = "names",
                          ![p].result = FormatNames(inv[p].names)]
    /\ UNCHANGED <<db, wdb, writer, now>>

NextFormat == Format(1)

SpecFormat == InitFormat /\ [][NextFormat]_vars

TypeOK ==
    /\ writer \in {0} \cup Procs
    /\ now \in 0..MaxEvents
    /\ DOMAIN db.sponsor \subseteq SponsorIds
    /\ writer = 0 => wdb = db

\* ------------------------------------------------------------------ helpers
Running(p) == inv[p].pc \in {"draw", "loop"}

Finished(p) == inv[p].pc = "done" /\ inv[p].outcome # "error"

DrawnIds(p) == {inv[p].drawn[k].id : k \in 1..Len(inv[p].drawn)}

EventsOf(gratitude, i) == {g \in gratitude : g.sponsor_id = i}

\* ------------------------------------------------------------------- claims

\* C1 (as claimed): after any sequence of completed add and creditSponsors
\* invocations, every stored sponsor has 0 <= current <= level.
C1_CurrentWithinLevel ==
    \A i \in DOMAIN db.sponsor :
        /\ 0 <= db.sponsor[i].current
        /\ db.sponsor[i].current <= db.sponsor[i].level

\* C2: when creditSponsors commits and returns a name list, the gratitude rows
\* that commit adds are as many as the sponsors the draw returned, they belong
\* to pairwise distinct drawn sponsors, and every drawn sponsor's stored
\* current is one less than the value the draw read.
C2_EventsMatchDraw ==
    [][\A p \in Procs :
         (inv[p].pc = "loop" /\ inv'[p].outcome = "names") =>
           LET drawn == inv[p].drawn
               new == db'.gratitude \ db.gratitude
           IN /\ Cardinality(new) = Len(drawn)
              /\ {g.id : g \in new} = inv[p].added
              /\ {g.sponsor_id : g \in new} = DrawnIds(p)
              /\ Cardinality(DrawnIds(p)) = Len(drawn)
              /\ \A k \in 1..Len(drawn) :
                   db'.sponsor[drawn[k].id].current = drawn[k].current - 1]_vars

C2_Witness ==
    /\ inv[1].outcome = "names"
    /\ Len(inv[1].drawn) = 2
    /\ \E k \in 1..2 : inv[1].drawn[k].current = 2

\* C3 (as claimed): whatever count thank passes through, the draw returns no
\* sponsor with current <= 0, no more than N sponsors (an empty answer being
\* within any N), and no sponsor twice.
C3_DrawCorrect ==
    \A p \in Procs :
        inv[p].pc = "loop" =>
            /\ \A k \in 1..Len(inv[p].drawn) : inv[p].drawn[k].current > 0
            /\ inv[p].drawn = <<>> \/ Len(inv[p].drawn) <= inv[p].howMany
            /\ Cardinality(DrawnIds(p)) = Len(inv[p].drawn)

\* C4 (as claimed): a call that starts on a pool of one or more sponsors, all
\* with current = 0, ends with every sponsor at its level, except the sponsors
\* named in the result, which are at level - 1; a result that names sponsors
\* names at most N of them and one gratitude row was written for each.
C4_ExhaustionReset ==
    \A p \in Procs :
        (inv[p].exhausted /\ Finished(p)) =>
            /\ \A i \in DOMAIN db.sponsor :
                 db.sponsor[i].current =
                     IF i \in DrawnIds(p) THEN db.sponsor[i].level - 1
                     ELSE db.sponsor[i].level
            /\ inv[p].names # <<>> => Len(inv[p].names) <= inv[p].howMany
            /\ Cardinality(inv[p].added) = Len(inv[p].drawn)
            /\ \A i \in DrawnIds(p) :
                 Cardinality({g \in EventsOf(db.gratitude, i) : g.id \in inv[p].added}) = 1

\* C5 (as claimed): with two invocations overlapping, every committed gratitude
\* row stands for a decrease of exactly 1 in the stored current of its sponsor
\* (no reset having been issued, level - current counts the sponsor's rows) and
\* the current of a thanked sponsor is never below 0.
C5_NoLostUpdate ==
    (\A p \in Procs : inv[p].resets = 0) =>
        \A i \in DOMAIN db.sponsor :
            /\ db.sponsor[i].level - db.sponsor[i].current
                 = Cardinality(EventsOf(db.gratitude, i))
            /\ EventsOf(db.gratitude, i) # {} => db.sponsor[i].current >= 0

C7_Rollback ==
    [][\A p \in Procs :
         (Running(p) /\ inv'[p].outcome = "error") =>
           /\ inv'[p].pc = "done"
           /\ db' = db
           /\ wdb' = db
           /\ writer' # p
           /\ \A g \in db'.gratitude : g.id \notin inv[p].added
           /\ \A c \in db'.precommit : c.gratitude_id \notin inv[p].added
           /\ \A k \in 1..inv[p].idx :
                db'.sponsor[inv[p].drawn[k].id].current = inv[p].drawn[k].current]_vars

C7_Witness ==
    /\ inv[1].outcome = "error"
    /\ inv[1].describer.kind = "commit"
    /\ Cardinality(inv[1].added) = 1
    /\ Cardinality(Qualifying(db.sponsor)) = 2

\* C8: patrons on a store without sponsors changes nothing in the store and,
\* unless a statement fails, ends by returning "just me".
C8_EmptyStoreSentinel ==
    [][\A p \in Procs :
         (Running(p) /\ inv[p].variant = "patrons" /\ DOMAIN db.sponsor = {}) =>
           /\ db' = db
           /\ wdb' = db
           /\ inv'[p].added = {}
           /\ inv'[p].pc = "done" => inv'[p].outcome \in {"sentinel", "error"}
           /\ inv'[p].outcome = "sentinel" => inv'[p].result = "just me"]_vars

C8_Witness ==
    /\ inv[1].variant = "patrons"
    /\ inv[1].outcome = "sentinel"
    /\ inv[1].resets = 2
    /\ db = EmptyStore

\* C9 (as claimed): "just me" is returned only when the store has no sponsor;
\* on a store with a sponsor, whatever the count, a call that ends without a
\* storage error returns a non-empty name list.  Stated for the stores that
\* hold a sponsor of positive level.
C9_SentinelOnlyWhenEmpty ==
    \A p \in Procs :
        (Finished(p) /\ \E i \in DOMAIN db.sponsor : db.sponsor[i].level > 0) =>
            /\ inv[p].outcome = "names"
            /\ inv[p].names # <<>>

\* C10 (as claimed): whatever the count, fullReset is issued only when no
\* sponsor has current > 0.
C10_ResetOnlyWhenExhausted ==
    [][\A p \in Procs :
         inv'[p].resets > inv[p].resets => Qualifying(db.sponsor) = {}]_vars

Measure(r) ==
    IF r.pc \notin {"draw", "loop"} THEN 0
    ELSE (1 - r.repeat) * (MaxSponsors + 3)
         + (IF r.pc = "draw" THEN MaxSponsors + 2 ELSE Len(r.drawn) - r.idx + 1)

\* C12: an invocation ends after at most 2 draw attempts, each in a
\* transaction of its own: a draw is only ever made on pass 0 or pass 1, with
\* no write of an earlier pass uncommitted and the write lock free; a running
\* invocation can always take a step; and every step it takes strictly lowers
\* a non-negative measure bounded by the size of the pool, so that it cannot
\* run forever.
C12_Terminates ==
    [][\A p \in Procs :
         /\ (inv[p].pc = "draw" /\ inv'[p].pc = "loop") =>
               /\ inv[p].repeat \in {0, 1}
               /\ inv[p].resets = inv[p].repeat
               /\ writer # p
               /\ (writer = 0 => wdb = db)
         /\ (Running(p) /\ inv'[p] # inv[p]) =>
               /\ Measure(inv[p]) > 0
               /\ Measure(inv'[p]) >= 0
               /\ Measure(inv'[p]) < Measure(inv[p])
         /\ Running(p) => Measure(inv[p]) <= 2 * (MaxSponsors + 3)
         /\ (Running(p) /\ writer \in {0, p}) => ENABLED Run(p)]_vars

C12_Witness ==
    /\ inv[1].pc = "done"
    /\ inv[1].outcome = "names"
    /\ inv[1].repeat = 1
    /\ inv[1].exhausted
    /\ Cardinality(DOMAIN db.sponsor) = 2

\* C13: k >= 1 names n1..nk are returned as n1 when k = 1, as "n1 and n2"
\* when k = 2, and as "n1, n2, ..., and nk" when k >= 3: every name but the
\* last followed by ", ", then "and " and the last name, in the order given.
C13_NameFormatting ==
    \A p \in Procs :
        (inv[p].outcome = "names" /\ inv[p].names # <<>>) =>
            LET n == inv[p].names
                k == Len(n)
                RECURSIVE Listed(_)
                Listed(i) == IF i = 0 THEN "" ELSE Listed(i - 1) \o n[i] \o ", "
            IN inv[p].result =
                 IF k = 1 THEN n[1]
                 ELSE IF k = 2 THEN n[1] \o " and " \o n[2]
                 ELSE Listed(k - 1) \o "and " \o n[k]

C13_Witness ==
    /\ inv[1].outcome = "names"
    /\ inv[1].names = <<"A", "B", "C">>
    /\ inv[1].result = "A, B, and C"

\* C14: running the schema script on a store that has its tables changes
\* nothing: the store has exactly the three tables, the script maps it to
\* itself however often it runs, and a step that opens a connection to draw
\* leaves sponsors, gratitude rows and precommit rows as they were, while add
\* leaves everything but the new sponsor row as it was.
C14_BootstrapIdempotent ==
    [][/\ DOMAIN db = Tables
       /\ schemaed(db) = db
       /\ schemaed(schemaed(NoTables)) = schemaed(NoTables)
       /\ \A p \in Procs :
            (inv[p].pc = "draw" /\ inv'[p].pc = "loop") => (db' = db /\ wdb' = wdb)
       /\ DOMAIN db'.sponsor # DOMAIN db.sponsor =>
            /\ db'.gratitude = db.gratitude
            /\ db'.precommit = db.precommit
            /\ \A i \in DOMAIN db.sponsor :
                 i \in DOMAIN db'.sponsor /\ db'.sponsor[i] = db.sponsor[i]]_vars

C14_Witness ==
    /\ inv[1].pc = "loop"
    /\ inv[1].drawn # <<>>
    /\ Cardinality(DOMAIN db.sponsor) = 2
    /\ db.gratitude # {}
    /\ db.precommit # {}
    /\ schemaed(db) = db

\* C15 (as claimed): contributors never runs out of passes: whatever the store
\* and the count, no invocation ends at the final "assert False".
C15_AssertUnreachable ==
    \A p \in Procs : inv[p].outcome # "assert"

C17_AtMostOneReset ==
    \A p \in Procs : inv[p].resets <= 1

\* C18: for a count N > 0, with q the number of stored sponsors that have
\* current > 0, the draw returns exactly min(N, q) distinct sponsors, all of
\* them with current > 0, and all q of them when q < N; the call that returns
\* names has thanked every sponsor drawn; and fullReset is issued only when
\* q = 0.
C18_DrawCount ==
    [][\A p \in Procs :
         inv[p].howMany > 0 =>
           LET N == inv[p].howMany
               withCredit == {i \in DOMAIN db.sponsor : db.sponsor[i].current > 0}
               q == Cardinality(withCredit)
               ids == {inv'[p].drawn[k].id : k \in 1..Len(inv'[p].drawn)}
           IN /\ (inv[p].pc = "draw" /\ inv'[p].pc = "loop") =>
                   /\ Len(inv'[p].drawn) = (IF N < q THEN N ELSE q)
                   /\ Cardinality(ids) = Len(inv'[p].drawn)
                   /\ ids \subseteq withCredit
                   /\ q < N => ids = withCredit
              /\ (inv[p].pc = "loop" /\ inv'[p].outcome = "names") =>
                   /\ inv[p].idx = Len(inv[p].drawn)
                   /\ Len(inv[p].names) = Len(inv[p].drawn)
                   /\ \A k \in 1..Len(inv[p].drawn) :
                        /\ inv[p].names[k] = inv[p].drawn[k].name
                        /\ \E g \in db'.gratitude \ db.gratitude :
                             g.sponsor_id = inv[p].drawn[k].id
              /\ inv'[p].resets > inv[p].resets => q = 0]_vars

C18_Witness ==
    /\ inv[1].outcome = "names"
    /\ inv[1].howMany = 3
    /\ inv[1].resets = 0
    /\ Len(inv[1].drawn) = 1
    /\ Cardinality(DOMAIN db.sponsor) = 2
    /\ \A i \in DOMAIN db.sponsor : db.sponsor[i].level > 0

\* C19: no step of a running invocation adds or removes a sponsor or changes
\* a sponsor's id, name or level, in the committed store or in the open
\* transaction; and as long as the invocation has issued no reset, the current
\* of every sponsor it has not drawn stays what it was.
C19_Frame ==
    [][\A p \in Procs :
         Running(p) =>
           /\ DOMAIN db'.sponsor = DOMAIN db.sponsor
           /\ DOMAIN wdb'.sponsor = DOMAIN wdb.sponsor
           /\ \A i \in DOMAIN db.sponsor :
                /\ db'.sponsor[i].name = db.sponsor[i].name
                /\ db'.sponsor[i].level = db.sponsor[i].level
                /\ wdb'.sponsor[i].name = db.sponsor[i].name
                /\ wdb'.sponsor[i].level = db.sponsor[i].level
           /\ inv'[p].resets = 0 =>
                \A i \in DOMAIN db.sponsor :
                    i \notin {inv'[p].drawn[k].id : k \in 1..Len(inv'[p].drawn)} =>
                        /\ db'.sponsor[i].current = db.sponsor[i].current
                        /\ wdb'.sponsor[i].current = db.sponsor[i].current]_vars

C19_Witness ==
    /\ inv[1].outcome = "names"
    /\ inv[1].resets = 0
    /\ Len(inv[1].drawn) = 1
    /\ DOMAIN db.sponsor = {1, 2}
    /\ db.sponsor[1].name # db.sponsor[2].name
    /\ db.sponsor[1].level # db.sponsor[2].level
    /\ \A i \in {1, 2} : db.sponsor[i].current > 0

\* C20: the gratitude log only grows: whatever step is taken (add, the steps
\* of a crediting call including its resets, list, history), every committed
\* gratitude row is still there afterwards with the same id, sponsor_id,
\* timestamp and description, no id stands for two rows, every row's
\* sponsor_id is the id of a stored sponsor, and history, which changes
\* nothing, shows one line per row without error.
C20_LogAppendOnly ==
    [][/\ db.gratitude \subseteq db'.gratitude
       /\ \A g, h \in db'.gratitude : g.id = h.id => g = h
       /\ \A g \in db'.gratitude : g.sponsor_id \in DOMAIN db'.sponsor
       /\ \A p \in Procs :
            inv'[p].pc = "shown" =>
              /\ db' = db
              /\ inv'[p].outcome # "error"
              /\ inv'[p].variant = "history" =>
                   Len(inv'[p].shown) = Cardinality(db.gratitude)]_vars

C20_Witness ==
    /\ inv[1].pc = "shown"
    /\ inv[1].variant = "history"
    /\ Len(inv[1].shown) = 3
    /\ Cardinality(DOMAIN db.sponsor) = 1
    /\ \E k \in 1..3 : inv[1].shown[k].commit # None

\* C21 (as claimed): what list loads with sponsors(), and what sponsorByID
\* loads for a stored id, is the stored sponsor: for every sponsor row there is
\* a loaded Sponsor with that row's id, name, level and current.
C21_ReadRoundTrip ==
    \A p \in Procs :
        (inv[p].pc = "shown" /\ inv[p].variant = "list") =>
            \A i \in DOMAIN db.sponsor :
                /\ \E k \in 1..Len(inv[p].shown) :
                     inv[p].shown[k] = [id |-> i, name |-> db.sponsor[i].name,
                                        level |-> db.sponsor[i].level,
                                        current |-> db.sponsor[i].current]
                /\ sponsorByID(db.sponsor, i).id = i
                /\ sponsorByID(db.sponsor, i).name = db.sponsor[i].name
                /\ sponsorByID(db.sponsor, i).level = db.sponsor[i].level
                /\ sponsorByID(db.sponsor, i).current = db.sponsor[i].current

\* C22 (as claimed): with invocations one at a time and counts > 0, level -
\* current of every sponsor is the number of its gratitude rows since the last
\* reset, or since it was added.  Step by step: a sponsor is added with
\* current = level and no row; a step that is not a reset raises level -
\* current by exactly the number of rows it commits for the sponsor; a reset
\* comes only when each sponsor has gathered exactly level rows since the
\* reset before (level - current = level), adds no row and starts the count
\* again at 0.
C22_CreditAccounting ==
    [][(\A p \in Procs : Running(p) => inv[p].howMany > 0) =>
         \A i \in DOMAIN db'.sponsor :
           LET new == EventsOf(db'.gratitude, i) \ EventsOf(db.gratitude, i)
           IN IF i \notin DOMAIN db.sponsor
              THEN /\ db'.sponsor[i].current = db'.sponsor[i].level
                   /\ EventsOf(db'.gratitude, i) = {}
              ELSE IF \E p \in Procs : inv'[p].resets > inv[p].resets
              THEN /\ db.sponsor[i].level - db.sponsor[i].current = db.sponsor[i].level
                   /\ db'.sponsor[i].level - db'.sponsor[i].current = 0
                   /\ new = {}
              ELSE /\ db'.sponsor[i].level = db.sponsor[i].level
                   /\ db'.sponsor[i].level - db'.sponsor[i].current =
                        (db.sponsor[i].level - db.sponsor[i].current) + Cardinality(new)]_vars

====
